---- MODULE Spec2Model ----
(***************************************************************************)
(* A model of the dogoap planner (crates/dogoap/src): the Action / Goal /   *)
(* Node data model, the Action builder, successor generation, the goal     *)
(* test, the heuristic and the best-first search that make_plan runs over  *)
(* them.                                                                   *)
(*                                                                         *)
(* planner.rs, action.rs, goal.rs and simple.rs are modelled from their    *)
(* code.  compare.rs, localstate.rs, mutator.rs, datum.rs and effect.rs    *)
(* are modelled from the written specification (sections 3 and 4).  The    *)
(* search loop is pathfinding::directed::astar::astar, which planner.rs    *)
(* calls with successors, heuristic and is_goal as its three callbacks.    *)
(***************************************************************************)
EXTENDS Integers, Sequences, FiniteSets, TLC

VARIABLES
    call,       \* the entry point exercised: "make_plan", "check_goal",
                \* "get_effects_from_plan", "builder"
    start,      \* &LocalState passed by the caller
    actions,    \* &[Action] passed by the caller
    goal,       \* &Goal passed by the caller
    plan,       \* Vec<Node> passed to get_effects_from_plan
    strategy,   \* PlanningStrategy of the running call ("unset" before the call)
    pc,         \* "init" | "search" | "done"
    parents,    \* astar: insertion-ordered map Node -> (parent index, cost)
    to_see,     \* astar: the binary heap of SmallestCostHolder
    result,     \* what the call gave back to the caller
    built,      \* the Action a chain of builder calls holds
    calls,      \* the builder calls made on it so far, first to last
    compared    \* the Action the built one was compared with

vars == <<call, start, actions, goal, plan, strategy, pc, parents, to_see, result,
          built, calls, compared>>

-----------------------------------------------------------------------------
(* Bounds of the model *)

\* integer facts are explored inside -MaxVal..MaxVal
MaxVal == 4
\* number of actions in a library
MaxLib == 3
\* number of vertices of a path handed to get_effects_from_plan
MaxPlanLen == 3
\* number of builder calls chained on one Action::new
MaxCalls == 3
\* largest amount of an increment-only action
MaxStep == 3
\* largest cost set on an increment-only action
MaxCost == 2

-----------------------------------------------------------------------------
(* Datum, Compare, Mutator, LocalState *)

I64(n) == [tag |-> "I64", val |-> n]
Bool(b) == [tag |-> "Bool", val |-> IF b THEN 1 ELSE 0]

Abs(n) == IF n < 0 THEN -n ELSE n

\* fact names in String order, the iteration order of every BTreeMap keyed by them
KeyOrder == <<"energy", "hunger", "thirst">>

EmptyState == [k \in {} |-> I64(0)]

Cmp(op, d) == [op |-> op, val |-> d]

CompareOps == {"Equals", "NotEquals", "GreaterThan", "GreaterThanOrEquals",
               "LessThan", "LessThanOrEquals"}

\* compare_values(comparison, value): "true" | "false" | "type_error"
compare_values(comparison, value) ==
    LET t == comparison.val
        tf(b) == IF b THEN "true" ELSE "false"
    IN  IF t.tag # value.tag THEN "type_error"
        ELSE CASE comparison.op = "Equals" -> tf(value.val = t.val)
               [] comparison.op = "NotEquals" -> tf(value.val # t.val)
               [] value.tag # "I64" -> "type_error"
               [] comparison.op = "GreaterThan" -> tf(value.val > t.val)
               [] comparison.op = "GreaterThanOrEquals" -> tf(value.val >= t.val)
               [] comparison.op = "LessThan" -> tf(value.val < t.val)
               [] comparison.op = "LessThanOrEquals" -> tf(value.val <= t.val)

Set(k, d) == [op |-> "Set", key |-> k, val |-> d]
Increment(k, d) == [op |-> "Increment", key |-> k, val |-> d]
Decrement(k, d) == [op |-> "Decrement", key |-> k, val |-> d]

\* BTreeMap::insert
Insert(data, k, d) == [x \in DOMAIN data \cup {k} |-> IF x = k THEN d ELSE data[x]]

\* apply_mutator(&mut data, mutator): the new data, or ok = FALSE on a missing
\* fact or a non-numeric operand of Increment / Decrement
apply_mutator(data, mutator) ==
    IF mutator.op = "Set"
    THEN [ok |-> TRUE, data |-> Insert(data, mutator.key, mutator.val)]
    ELSE IF \/ mutator.key \notin DOMAIN data
            \/ data[mutator.key].tag # "I64"
            \/ mutator.val.tag # "I64"
         THEN [ok |-> FALSE, data |-> data]
         ELSE LET d == IF mutator.op = "Increment" THEN mutator.val.val
                       ELSE -mutator.val.val
              IN  [ok |-> TRUE,
                   data |-> Insert(data, mutator.key, I64(data[mutator.key].val + d))]

-----------------------------------------------------------------------------
(* Effect, Action, Goal, Node *)

Effect(name, mutators, cost, st) ==
    [action |-> name, mutators |-> mutators, cost |-> cost, state |-> st]

Action(key, preconditions, dynamic_preconditions, effects) ==
    [key |-> key, preconditions |-> preconditions,
     dynamic_preconditions |-> dynamic_preconditions, effects |-> effects]

Goal(requirements) == [requirements |-> requirements, priority |-> 0]

StateNode(st) == [kind |-> "State", state |-> st]
EffectNode(effect) == [kind |-> "Effect", effect |-> effect]

\* Node::state
Node_state(node) == IF node.kind = "Effect" THEN node.effect.state ELSE node.state

\* the functions a dynamic precondition can hold (Arc<dyn Fn(&LocalState) -> Compare>)
DynGetter(id, st) ==
    CASE id = "above_hunger" -> Cmp("GreaterThan", I64(st["hunger"].val))
      [] id = "at_least_one" -> Cmp("GreaterThanOrEquals", I64(1))

\* a faulty get_preconditions: the dynamic functions are applied to the state
\* planning started from, whatever state is passed
get_preconditions_at_start(action, st) ==
    action.preconditions \o
    [i \in 1..Len(action.dynamic_preconditions) |->
        <<action.dynamic_preconditions[i][1],
          DynGetter(action.dynamic_preconditions[i][2], start)>>]

\* Action::get_preconditions
get_preconditions(action, st) ==
    action.preconditions \o
    [i \in 1..Len(action.dynamic_preconditions) |->
        <<action.dynamic_preconditions[i][1],
          DynGetter(action.dynamic_preconditions[i][2], st)>>]

NoPanic == [res |-> "true", key |-> "", msg |-> ""]
Verdict(r) == [res |-> r, key |-> "", msg |-> ""]
KeyPanic(k) == [res |-> "panic", key |-> k, msg |-> "Couldn't find key in LocalState"]
TypePanic(k) == [res |-> "panic", key |-> k, msg |-> "type mismatch"]

\* Iterator::all over (key, comparison) pairs against a state: stops at the
\* first pair that compares false, aborts at the first missing or ill-typed fact
RECURSIVE AllCompare(_, _, _)
AllCompare(pairs, st, i) ==
    IF i > Len(pairs) THEN Verdict("true")
    ELSE LET k == pairs[i][1]
             c == pairs[i][2]
         IN  IF k \notin DOMAIN st THEN KeyPanic(k)
             ELSE LET v == compare_values(c, st[k])
                  IN  CASE v = "type_error" -> TypePanic(k)
                        [] v = "false" -> Verdict("false")
                        [] v = "true" -> AllCompare(pairs, st, i + 1)

\* check_preconditions(state, action)
check_preconditions(st, action) == AllCompare(get_preconditions(action, st), st, 1)

\* the keys of a BTreeMap in iteration order
SortedKeys(map) == SelectSeq(KeyOrder, LAMBDA k : k \in DOMAIN map)

\* a faulty loop over the mutators: last to first
RECURSIVE ApplyMutatorsBackwards(_, _, _)
ApplyMutatorsBackwards(data, mutators, i) ==
    IF i > Len(mutators) THEN [ok |-> TRUE, data |-> data]
    ELSE LET r == apply_mutator(data, mutators[Len(mutators) + 1 - i])
         IN  IF r.ok THEN ApplyMutatorsBackwards(r.data, mutators, i + 1) ELSE r

\* the left-to-right loop over first_effect.mutators (planner.rs 54-57)
RECURSIVE ApplyMutators(_, _, _)
ApplyMutators(data, mutators, i) ==
    IF i > Len(mutators) THEN [ok |-> TRUE, data |-> data]
    ELSE LET r == apply_mutator(data, mutators[i])
         IN  IF r.ok THEN ApplyMutators(r.data, mutators, i + 1) ELSE r

\* a faulty closure: the effect applied is the last of the action, not the first
SuccessorOfLastEffect(st, action) ==
    LET last_effect == action.effects[Len(action.effects)]
    IN  IF check_preconditions(st, action).res = "true" /\ action.effects # <<>>
        THEN << <<EffectNode(Effect(last_effect.action, last_effect.mutators, last_effect.cost,
                                    ApplyMutators(st, last_effect.mutators, 1).data)),
                  last_effect.cost>> >>
        ELSE <<>>

\* a faulty closure: every step is charged 1, whatever the effect's cost
SuccessorOfUnitCost(st, action) ==
    LET first_effect == action.effects[1]
    IN  IF check_preconditions(st, action).res = "true" /\ action.effects # <<>>
        THEN << <<EffectNode(Effect(first_effect.action, first_effect.mutators,
                                    first_effect.cost,
                                    ApplyMutators(st, first_effect.mutators, 1).data)),
                  1>> >>
        ELSE <<>>

\* a faulty closure: the precondition check is left out
SuccessorOfUnchecked(st, action) ==
    IF action.effects # <<>>
    THEN << <<EffectNode(Effect(action.effects[1].action, action.effects[1].mutators,
                                action.effects[1].cost,
                                ApplyMutators(st, action.effects[1].mutators, 1).data)),
              action.effects[1].cost>> >>
    ELSE <<>>

\* the body of the filter_map closure of successors, for one action:
\* <<>> for None, <<(Node, cost)>> for Some
SuccessorOf(st, action) ==
    LET first_effect == action.effects[1]
        new_data == ApplyMutators(st, first_effect.mutators, 1).data
        new_effect == Effect(first_effect.action, first_effect.mutators,
                             first_effect.cost, new_data)
    IN  IF check_preconditions(st, action).res = "true" /\ action.effects # <<>>
        THEN << <<EffectNode(new_effect), first_effect.cost>> >>
        ELSE <<>>

\* successors(node, actions): the (Node, cost) pairs in library order
RECURSIVE SuccessorsFrom(_, _, _)
SuccessorsFrom(st, lib, i) ==
    IF i > Len(lib) THEN <<>>
    ELSE SuccessorOf(st, lib[i]) \o SuccessorsFrom(st, lib, i + 1)

successors(node, lib) == SuccessorsFrom(Node_state(node), lib, 1)

\* an evaluation fault raised while generating successors: the first action,
\* in library order, whose preconditions or mutators fault
RECURSIVE SuccessorsPanic(_, _, _)
SuccessorsPanic(st, lib, i) ==
    IF i > Len(lib) THEN NoPanic
    ELSE LET cp == check_preconditions(st, lib[i])
         IN  IF cp.res = "panic" THEN cp
             ELSE IF /\ cp.res = "true"
                     /\ lib[i].effects # <<>>
                     /\ ~ApplyMutators(st, lib[i].effects[1].mutators, 1).ok
                  THEN TypePanic("mutator")
                  ELSE SuccessorsPanic(st, lib, i + 1)

\* a faulty goal test: Iterator::any in place of Iterator::all
is_goal_any(node, g) ==
    IF \E k \in DOMAIN g.requirements :
           /\ k \in DOMAIN Node_state(node)
           /\ compare_values(g.requirements[k], Node_state(node)[k]) = "true"
    THEN Verdict("true")
    ELSE Verdict("false")

\* is_goal(node, goal)
is_goal(node, g) ==
    AllCompare([i \in 1..Len(SortedKeys(g.requirements)) |->
                   <<SortedKeys(g.requirements)[i],
                     g.requirements[SortedKeys(g.requirements)[i]]>>],
               Node_state(node), 1)

\* a faulty check_goal: a requirement on a fact the state lacks counts as failed
check_goal_missing_is_false(st, g) ==
    IF \A k \in DOMAIN g.requirements :
           k \in DOMAIN st /\ compare_values(g.requirements[k], st[k]) = "true"
    THEN Verdict("true")
    ELSE Verdict("false")

\* check_goal(state, goal)
RECURSIVE CheckGoalFrom(_, _, _, _)
CheckGoalFrom(st, g, keys, i) ==
    IF i > Len(keys) THEN Verdict("true")
    ELSE IF keys[i] \notin DOMAIN st THEN KeyPanic(keys[i])
    ELSE LET v == compare_values(g.requirements[keys[i]], st[keys[i]])
         IN  CASE v = "type_error" -> TypePanic(keys[i])
               [] v = "false" -> Verdict("false")
               [] v = "true" -> CheckGoalFrom(st, g, keys, i + 1)

check_goal(st, g) == CheckGoalFrom(st, g, SortedKeys(g.requirements), 1)

\* the per-requirement penalty of LocalState::distance_to_goal
RequirementDistance(st, k, c) ==
    IF k \notin DOMAIN st THEN 1
    ELSE IF compare_values(c, st[k]) = "true" THEN 0
    ELSE IF st[k].tag = "I64" /\ c.val.tag = "I64" THEN Abs(st[k].val - c.val.val)
    ELSE 1

\* LocalState::distance_to_goal
RECURSIVE DistanceFrom(_, _, _, _)
DistanceFrom(st, g, keys, i) ==
    IF i > Len(keys) THEN 0
    ELSE RequirementDistance(st, keys[i], g.requirements[keys[i]])
         + DistanceFrom(st, g, keys, i + 1)

distance_to_goal(st, g) == DistanceFrom(st, g, SortedKeys(g.requirements), 1)

\* heuristic(node, goal)
heuristic(node, g) == distance_to_goal(Node_state(node), g)

\* a faulty extraction: the first vertex is taken to be the initial state and skipped
RECURSIVE get_effects_after_first(_)
get_effects_after_first(p) ==
    IF p = <<>> THEN <<>>
    ELSE LET rest == Tail(p)
         IN  [j \in 1..Len(SelectSeq(rest, LAMBDA n : n.kind = "Effect")) |->
                 SelectSeq(rest, LAMBDA n : n.kind = "Effect")[j].effect]

\* get_effects_from_plan(plan)
RECURSIVE get_effects_from_plan(_)
get_effects_from_plan(p) ==
    IF p = <<>> THEN <<>>
    ELSE (IF Head(p).kind = "Effect" THEN <<Head(p).effect>> ELSE <<>>)
         \o get_effects_from_plan(Tail(p))

-----------------------------------------------------------------------------
(* The Action builder, Action equality and Action hash (action.rs) *)

\* the cost of an effect nobody has set the cost of
DefaultCost == 1

\* Effect::new(action_name): no mutator yet, the empty placeholder state
Effect_new(action_name) == Effect(action_name, <<>>, DefaultCost, EmptyState)

\* Effect::with_mutator
with_mutator(effect, mutator) == [effect EXCEPT !.mutators = Append(@, mutator)]

\* Action::new(key)
Action_new(key) == Action(key, <<>>, <<>>, <<>>)

\* Action::get_dynamic_precondition: the fact names of the dynamic preconditions
get_dynamic_precondition(self) ==
    [i \in 1..Len(self.dynamic_preconditions) |-> self.dynamic_preconditions[i][1]]

\* a faulty equality: the dynamic preconditions are compared function and all
Action_eq_by_function(self, o) ==
    /\ self.key = o.key
    /\ self.preconditions = o.preconditions
    /\ self.effects = o.effects
    /\ self.dynamic_preconditions = o.dynamic_preconditions

\* impl PartialEq for Action
Action_eq(self, o) ==
    /\ self.key = o.key
    /\ self.preconditions = o.preconditions
    /\ self.effects = o.effects
    /\ get_dynamic_precondition(self) = get_dynamic_precondition(o)

\* impl Hash for Action: what is written to the Hasher, in the order written
Action_hash(self) == <<self.key, self.preconditions, self.effects>>

\* Action::with_precondition
with_precondition(self, key, compare) ==
    [self EXCEPT !.preconditions = Append(@, <<key, compare>>)]

\* Action::with_effect
with_effect(self, effect) == [self EXCEPT !.effects = Append(@, effect)]

\* Action::add_precondition
add_precondition(self, precondition) ==
    [self EXCEPT !.preconditions = Append(@, precondition)]

\* Action::add_dynamic_precondition
add_dynamic_precondition(self, precondition) ==
    [self EXCEPT !.dynamic_preconditions = Append(@, precondition)]

\* a faulty add_mutator: every mutator gets an effect of its own
add_mutator_as_effect(self, mutator) ==
    [self EXCEPT !.effects = Append(@, with_mutator(Effect_new(self.key), mutator))]

\* Action::add_mutator
add_mutator(self, mutator) ==
    IF Len(self.effects) = 0
    THEN [self EXCEPT !.effects = <<with_mutator(Effect_new(self.key), mutator)>>]
    ELSE [self EXCEPT !.effects[1] = with_mutator(self.effects[1], mutator)]

\* a faulty set_cost: an action without effects is given one to hold the cost
set_cost_or_create(self, new_cost) ==
    IF Len(self.effects) = 0
    THEN [ok |-> TRUE,
          action |-> [self EXCEPT !.effects = <<[Effect_new(self.key) EXCEPT !.cost = new_cost]>>]]
    ELSE [ok |-> TRUE, action |-> [self EXCEPT !.effects[1].cost = new_cost]]

\* Action::set_cost: ok = FALSE when self.effects[0] is out of range
set_cost(self, new_cost) ==
    IF Len(self.effects) = 0
    THEN [ok |-> FALSE, action |-> self]
    ELSE [ok |-> TRUE, action |-> [self EXCEPT !.effects[1].cost = new_cost]]

-----------------------------------------------------------------------------
(* The inputs a caller can pass *)

\* simple_increment_action(name, key, amount): one Increment, cost 1, no precondition
simple_increment_action(name, key_to_mutate, from_value) ==
    Action(name, <<>>, <<>>,
           <<Effect(name, <<Increment(key_to_mutate, from_value)>>, 1, EmptyState)>>)

\* the actions libraries are drawn from, built the way action.rs and simple.rs build them
ActionCatalogue ==
    << simple_increment_action("sleep", "energy", I64(2)),
       Action("rest", << <<"energy", Cmp("Equals", I64(0))>> >>, <<>>,
              <<Effect("rest", <<Increment("energy", I64(4))>>, 2, EmptyState)>>),
       Action("walk", << <<"energy", Cmp("LessThan", I64(4))>> >>, <<>>,
              <<Effect("walk", <<Increment("energy", I64(1))>>, 0, EmptyState)>>),
       Action("nap", << <<"energy", Cmp("LessThan", I64(4))>> >>,
              << <<"energy", "at_least_one">> >>,
              <<Effect("nap", <<Set("energy", I64(0)), Increment("energy", I64(2))>>,
                       1, EmptyState)>>),
       Action("eat", << <<"hunger", Cmp("Equals", Bool(FALSE))>> >>, <<>>,
              <<Effect("eat", <<Set("hunger", Bool(TRUE))>>, 1, EmptyState),
                Effect("feast", <<Increment("energy", I64(2))>>, 0, EmptyState)>>),
       Action("work", <<>>, << <<"energy", "above_hunger">> >>,
              <<Effect("work", <<Decrement("energy", I64(1)), Set("hunger", Bool(FALSE))>>,
                       0, EmptyState)>>),
       Action("idle", <<>>, <<>>, <<>>),
       Action("drink", << <<"thirst", Cmp("Equals", Bool(FALSE))>> >>, <<>>,
              <<Effect("drink", <<Set("thirst", Bool(TRUE))>>, 1, EmptyState)>>) >>

CatalogueKeys == {ActionCatalogue[i].key : i \in 1..Len(ActionCatalogue)}

\* libraries: at most MaxLib actions with distinct keys
Libraries ==
    {SelectSeq(ActionCatalogue, LAMBDA a : a.key \in S) :
        S \in {T \in SUBSET CatalogueKeys : Cardinality(T) <= MaxLib}}

Starts == {[energy |-> I64(e), hunger |-> Bool(h)] : e \in 0..1, h \in BOOLEAN}

EnergyGoals ==
    {Goal([k \in {"energy"} |-> Cmp(op, I64(t))]) : op \in CompareOps, t \in {0, 4}}

Goals ==
    EnergyGoals \cup
    { Goal(EmptyState),
      Goal([k \in {"hunger"} |-> Cmp("Equals", Bool(TRUE))]),
      Goal([k \in {"hunger"} |-> Cmp("NotEquals", Bool(TRUE))]),
      Goal([energy |-> Cmp("GreaterThanOrEquals", I64(4)),
            hunger |-> Cmp("Equals", Bool(TRUE))]),
      Goal([k \in {"thirst"} |-> Cmp("Equals", Bool(TRUE))]),
      Goal([energy |-> Cmp("GreaterThanOrEquals", I64(2)),
            thirst |-> Cmp("Equals", Bool(TRUE))]) }

\* vertices a caller can put in a path
PlanNodes ==
    { StateNode([energy |-> I64(0), hunger |-> Bool(FALSE)]),
      StateNode([energy |-> I64(2), hunger |-> Bool(FALSE)]),
      EffectNode(Effect("sleep", <<Increment("energy", I64(2))>>, 1,
                        [energy |-> I64(2), hunger |-> Bool(FALSE)])),
      EffectNode(Effect("eat", <<Set("hunger", Bool(TRUE))>>, 1,
                        [energy |-> I64(2), hunger |-> Bool(TRUE)])) }

RECURSIVE SeqsUpTo(_, _)
SeqsUpTo(S, n) ==
    IF n = 0 THEN {<<>>}
    ELSE SeqsUpTo(S, n - 1) \cup
         {Append(q, x) : q \in {r \in SeqsUpTo(S, n - 1) : Len(r) = n - 1}, x \in S}

Plans == SeqsUpTo(PlanNodes, MaxPlanLen)

PlanningStrategy == {"StartToGoal", "GoalToStart"}

-----------------------------------------------------------------------------
(* What a call gives back *)

Outcome(kind) ==
    [kind |-> kind, path |-> <<>>, cost |-> 0, effects |-> <<>>, key |-> "", msg |-> ""]

Pending == Outcome("pending")
\* Option::Some((path, cost))
Some(path, cost) == [Outcome("Some") EXCEPT !.path = path, !.cost = cost]
\* Option::None
None == Outcome("None")
\* panic!(msg), naming the fact it is about
Panic(key, msg) == [Outcome("Panic") EXCEPT !.key = key, !.msg = msg]
\* a bool
Boolean(b) == Outcome(b)
\* Vec<Effect>
Effects(es) == [Outcome("Effects") EXCEPT !.effects = es]

-----------------------------------------------------------------------------
(* Init *)

Idle ==
    /\ strategy = "unset"
    /\ pc = "init"
    /\ parents = <<>>
    /\ to_see = {}
    /\ result = Pending

\* no builder chain is under way
NotBuilding ==
    /\ built = Action_new("")
    /\ calls = <<>>
    /\ compared = Action_new("")

Init ==
    /\ Idle
    /\ NotBuilding
    /\ \/ /\ call = "make_plan"
          /\ start \in Starts
          /\ actions \in Libraries
          /\ goal \in Goals
          /\ plan = <<>>
       \/ /\ call = "check_goal"
          /\ start \in Starts
          /\ actions = <<>>
          /\ goal \in Goals
          /\ plan = <<>>
       \/ /\ call = "get_effects_from_plan"
          /\ start = EmptyState
          /\ actions = <<>>
          /\ goal = Goal(EmptyState)
          /\ plan \in Plans

-----------------------------------------------------------------------------
(* make_plan: the astar loop over successors, heuristic and is_goal *)

\* the part of the integer line the search is followed through
InWindow(node) ==
    \A k \in DOMAIN Node_state(node) :
        Node_state(node)[k].tag = "I64" =>
            /\ Node_state(node)[k].val >= -MaxVal
            /\ Node_state(node)[k].val <= MaxVal

\* index of a node in the parents map, 0 when it is vacant
IndexOf(ps, node) ==
    IF \E i \in 1..Len(ps) : ps[i].node = node
    THEN CHOOSE i \in 1..Len(ps) : ps[i].node = node
    ELSE 0

\* Ord for SmallestCostHolder: the heap pops a smallest estimated_cost and, among
\* those, a largest cost; which of several entries equal in both is popped is
\* left open
Top(heap) ==
    {e \in heap :
        \A o \in heap :
            \/ e.estimated_cost < o.estimated_cost
            \/ e.estimated_cost = o.estimated_cost /\ e.cost >= o.cost}

\* a faulty reverse_path: the vertices are collected from parents[index] back
\* to the start and returned in that order
RECURSIVE path_not_reversed(_, _)
path_not_reversed(ps, index) ==
    IF index = 0 THEN <<>>
    ELSE <<ps[index].node>> \o path_not_reversed(ps, ps[index].parent)

\* reverse_path: the vertices from the start to parents[index]
RECURSIVE reverse_path(_, _)
reverse_path(ps, index) ==
    IF index = 0 THEN <<>>
    ELSE Append(reverse_path(ps, ps[index].parent), ps[index].node)

\* a faulty loop over the successors: a successor's state is not a snapshot of
\* its own, it is the expanded node's state, mutated in place
RECURSIVE RelaxAliased(_, _, _, _, _, _)
RelaxAliased(ps, heap, succ, i, index, cost) ==
    IF i > Len(succ) THEN [parents |-> ps, to_see |-> heap]
    ELSE LET successor == succ[i][1]
             new_cost == cost + succ[i][2]
             n == IndexOf(ps, successor)
             h == heuristic(successor, goal)
             expanded == ps[index].node
             shared == IF expanded.kind = "Effect"
                       THEN [expanded EXCEPT !.effect.state = Node_state(successor)]
                       ELSE [expanded EXCEPT !.state = Node_state(successor)]
         IN  IF n = 0
             THEN RelaxAliased(Append([ps EXCEPT ![index].node = shared],
                                      [node |-> successor, parent |-> index, cost |-> new_cost]),
                               heap \cup {[estimated_cost |-> new_cost + h, cost |-> new_cost,
                                           index |-> Len(ps) + 1]},
                               succ, i + 1, index, cost)
             ELSE RelaxAliased(ps, heap, succ, i + 1, index, cost)

\* the loop over the successors of the popped node: a vacant successor is
\* inserted, an occupied one is re-parented when the new cost is smaller
RECURSIVE Relax(_, _, _, _, _, _)
Relax(ps, heap, succ, i, index, cost) ==
    IF i > Len(succ) THEN [parents |-> ps, to_see |-> heap]
    ELSE LET successor == succ[i][1]
             new_cost == cost + succ[i][2]
             n == IndexOf(ps, successor)
             h == heuristic(successor, goal)
         IN  IF n = 0
             THEN Relax(Append(ps, [node |-> successor, parent |-> index, cost |-> new_cost]),
                        heap \cup {[estimated_cost |-> new_cost + h, cost |-> new_cost,
                                    index |-> Len(ps) + 1]},
                        succ, i + 1, index, cost)
             ELSE IF ps[n].cost > new_cost
             THEN Relax([ps EXCEPT ![n] = [node |-> successor, parent |-> index,
                                           cost |-> new_cost]],
                        heap \cup {[estimated_cost |-> new_cost + h, cost |-> new_cost,
                                    index |-> n]},
                        succ, i + 1, index, cost)
             ELSE Relax(ps, heap, succ, i + 1, index, cost)

Inputs == <<call, start, actions, goal, plan>>
Builder == <<built, calls, compared>>

\* make_plan_with_strategy, the StartToGoal arm up to the first pop
StartSearch ==
    /\ pc' = "search"
    /\ parents' = <<[node |-> StateNode(start), parent |-> 0, cost |-> 0]>>
    /\ to_see' = {[estimated_cost |-> 0, cost |-> 0, index |-> 1]}
    /\ result' = Pending

\* make_plan(start, actions, goal)
MakePlan ==
    /\ call = "make_plan"
    /\ pc = "init"
    /\ strategy' = "StartToGoal"
    /\ StartSearch
    /\ UNCHANGED <<Builder, Inputs>>

\* make_plan_with_strategy(strategy, start, actions, goal)
MakePlanWithStrategy ==
    /\ call = "make_plan"
    /\ pc = "init"
    /\ \E s \in PlanningStrategy :
        /\ strategy' = s
        /\ IF s = "StartToGoal"
           THEN StartSearch
           ELSE /\ pc' = "done"
                /\ result' = Panic("", "PlanningStrategy::GoalToStart hasn't been implemented yet!")
                /\ UNCHANGED <<parents, to_see>>
    /\ UNCHANGED <<Builder, Inputs>>

\* astar: the popped node passes is_goal
AstarSuccess ==
    /\ pc = "search"
    /\ \E top \in Top(to_see) :
        /\ is_goal(parents[top.index].node, goal).res = "true"
        /\ to_see' = to_see \ {top}
        /\ result' = Some(reverse_path(parents, top.index), top.cost)
    /\ pc' = "done"
    /\ UNCHANGED <<Builder, Inputs, strategy, parents>>

\* astar: is_goal panics on the popped node
AstarGoalPanic ==
    /\ pc = "search"
    /\ \E top \in Top(to_see) :
        LET g == is_goal(parents[top.index].node, goal)
        IN  /\ g.res = "panic"
            /\ to_see' = to_see \ {top}
            /\ result' = Panic(g.key, g.msg)
    /\ pc' = "done"
    /\ UNCHANGED <<Builder, Inputs, strategy, parents>>

\* astar: the popped entry is not the best path to its node any more
AstarStale ==
    /\ pc = "search"
    /\ \E top \in Top(to_see) :
        /\ is_goal(parents[top.index].node, goal).res = "false"
        /\ top.cost > parents[top.index].cost
        /\ to_see' = to_see \ {top}
    /\ UNCHANGED <<Builder, Inputs, strategy, pc, parents, result>>

\* astar: the popped node is expanded
AstarExpand ==
    /\ pc = "search"
    /\ \E top \in Top(to_see) :
        LET node == parents[top.index].node
            succ == successors(node, actions)
            next == Relax(parents, to_see \ {top}, succ, 1, top.index, top.cost)
        IN  /\ is_goal(node, goal).res = "false"
            /\ top.cost <= parents[top.index].cost
            /\ SuccessorsPanic(Node_state(node), actions, 1).res # "panic"
            /\ \A i \in 1..Len(succ) : InWindow(succ[i][1])
            /\ parents' = next.parents
            /\ to_see' = next.to_see
    /\ UNCHANGED <<Builder, Inputs, strategy, pc, result>>

\* astar: successors panics while the popped node is expanded
AstarExpandPanic ==
    /\ pc = "search"
    /\ \E top \in Top(to_see) :
        LET node == parents[top.index].node
            p == SuccessorsPanic(Node_state(node), actions, 1)
        IN  /\ is_goal(node, goal).res = "false"
            /\ top.cost <= parents[top.index].cost
            /\ p.res = "panic"
            /\ to_see' = to_see \ {top}
            /\ result' = Panic(p.key, p.msg)
    /\ pc' = "done"
    /\ UNCHANGED <<Builder, Inputs, strategy, parents>>

\* astar: the heap is empty
AstarExhausted ==
    /\ pc = "search"
    /\ to_see = {}
    /\ pc' = "done"
    /\ result' = None
    /\ UNCHANGED <<Builder, Inputs, strategy, parents, to_see>>

-----------------------------------------------------------------------------
(* check_goal and get_effects_from_plan *)

CheckGoal ==
    /\ call = "check_goal"
    /\ pc = "init"
    /\ pc' = "done"
    /\ LET g == check_goal(start, goal)
       IN  result' = IF g.res = "panic" THEN Panic(g.key, g.msg) ELSE Boolean(g.res)
    /\ UNCHANGED <<Builder, Inputs, strategy, parents, to_see>>

\* get_effects_from_plan on a path of the caller's making
GetEffectsFromPlan ==
    /\ call = "get_effects_from_plan"
    /\ pc = "init"
    /\ pc' = "done"
    /\ result' = Effects(get_effects_from_plan(plan))
    /\ UNCHANGED <<Builder, Inputs, strategy, parents, to_see>>

\* get_effects_from_plan on the path make_plan returned
GetEffectsFromResult ==
    /\ call = "make_plan"
    /\ pc = "done"
    /\ result.kind = "Some"
    /\ result.effects = <<>>
    /\ plan = <<>>
    /\ plan' = result.path
    /\ result' = [result EXCEPT !.effects = get_effects_from_plan(result.path)]
    /\ UNCHANGED <<Builder, call, start, actions, goal, strategy, pc, parents, to_see>>

Next ==
    \/ MakePlan
    \/ MakePlanWithStrategy
    \/ AstarSuccess
    \/ AstarGoalPanic
    \/ AstarStale
    \/ AstarExpand
    \/ AstarExpandPanic
    \/ AstarExhausted
    \/ CheckGoal
    \/ GetEffectsFromPlan
    \/ GetEffectsFromResult

Spec == Init /\ [][Next]_vars

-----------------------------------------------------------------------------
(* A chain of builder calls on Action::new(key), and == on what it built *)

\* the arguments a caller passes to the builder calls
NewKeys == {"work", "eat"}
MutatorArgs == {Set("hunger", Bool(TRUE)), Increment("energy", I64(1))}
CostArgs == {0, 2}
PreconditionArgs == {<<"energy", Cmp("LessThan", I64(4))>>}
DynamicArgs ==
    {<<"energy", "above_hunger">>, <<"energy", "at_least_one">>, <<"hunger", "at_least_one">>}
EffectArgs == {Effect("feast", <<Increment("energy", I64(2))>>, 0, EmptyState)}

\* the actions a built action is compared with: the same action with any
\* dynamic preconditions in place of its own, and with one field changed
Comparands(a) ==
    {[a EXCEPT !.dynamic_preconditions = d] :
        d \in {q \in SeqsUpTo(DynamicArgs, Len(a.dynamic_preconditions)) :
                  Len(q) = Len(a.dynamic_preconditions)}}
    \cup {[a EXCEPT !.key = "rest"], [a EXCEPT !.preconditions = <<>>],
          [a EXCEPT !.effects = <<>>]}

Planner == <<start, actions, goal, plan, strategy, parents, to_see>>

BuilderInit ==
    /\ Idle
    /\ call = "builder"
    /\ start = EmptyState
    /\ actions = <<>>
    /\ goal = Goal(EmptyState)
    /\ plan = <<>>
    /\ built \in {Action_new(k) : k \in NewKeys}
    /\ calls = <<>>
    /\ compared = Action_new("")

\* the chain is open: nothing has consumed or aborted it
Building ==
    /\ call = "builder"
    /\ pc = "init"
    /\ Len(calls) < MaxCalls

Called(op, arg) == calls' = Append(calls, [op |-> op, arg |-> arg])

WithPrecondition ==
    /\ Building
    /\ \E p \in PreconditionArgs :
        /\ built' = with_precondition(built, p[1], p[2])
        /\ Called("with_precondition", p)
    /\ UNCHANGED <<Planner, call, pc, result, compared>>

AddPrecondition ==
    /\ Building
    /\ \E p \in PreconditionArgs :
        /\ built' = add_precondition(built, p)
        /\ Called("add_precondition", p)
    /\ UNCHANGED <<Planner, call, pc, result, compared>>

AddDynamicPrecondition ==
    /\ Building
    /\ \E p \in DynamicArgs :
        /\ built' = add_dynamic_precondition(built, p)
        /\ Called("add_dynamic_precondition", p)
    /\ UNCHANGED <<Planner, call, pc, result, compared>>

WithEffect ==
    /\ Building
    /\ \E e \in EffectArgs :
        /\ built' = with_effect(built, e)
        /\ Called("with_effect", e)
    /\ UNCHANGED <<Planner, call, pc, result, compared>>

AddMutator ==
    /\ Building
    /\ \E m \in MutatorArgs :
        /\ built' = add_mutator(built, m)
        /\ Called("add_mutator", m)
    /\ UNCHANGED <<Planner, call, pc, result, compared>>

\* set_cost: the new action, or the index panic of self.effects[0]
SetCost ==
    /\ Building
    /\ \E c \in CostArgs :
        LET r == set_cost(built, c)
        IN  /\ built' = r.action
            /\ Called("set_cost", c)
            /\ IF r.ok
               THEN UNCHANGED <<pc, result>>
               ELSE /\ pc' = "done"
                    /\ result' = Panic("", "index out of bounds: the len is 0 but the index is 0")
    /\ UNCHANGED <<Planner, call, compared>>

\* built == o
ActionEq ==
    /\ call = "builder"
    /\ pc = "init"
    /\ \E o \in Comparands(built) :
        /\ compared' = o
        /\ result' = Boolean(IF Action_eq(built, o) THEN "true" ELSE "false")
    /\ pc' = "done"
    /\ UNCHANGED <<Planner, call, built, calls>>

BuilderNext ==
    \/ WithPrecondition
    \/ AddPrecondition
    \/ AddDynamicPrecondition
    \/ WithEffect
    \/ AddMutator
    \/ SetCost
    \/ ActionEq

BuilderSpec == BuilderInit /\ [][BuilderNext]_vars

-----------------------------------------------------------------------------
(* make_plan on one fact and one repeatable increment-only action *)

\* the libraries of one action made by simple_increment_action and set_cost
IncrementLibraries ==
    {<<set_cost(simple_increment_action("sleep", "energy", I64(k)), c).action>> :
        k \in 1..MaxStep, c \in 0..MaxCost}

\* thresholds low enough for the last step to stay inside the window
IncrementGoals ==
    {Goal([f \in {"energy"} |-> Cmp("GreaterThanOrEquals", I64(t))]) :
        t \in (1 - MaxVal)..(MaxVal + 1 - MaxStep)}

IncrementInit ==
    /\ Idle
    /\ NotBuilding
    /\ call = "make_plan"
    /\ start \in {[f \in {"energy"} |-> I64(v)] : v \in (-MaxVal)..MaxVal}
    /\ actions \in IncrementLibraries
    /\ goal \in IncrementGoals
    /\ plan = <<>>

\* the steps of make_plan there are on such a chain: every node has one
\* successor, a new one, so no entry is stale and the heap never runs empty
IncrementNext ==
    \/ MakePlan
    \/ AstarSuccess
    \/ AstarExpand
    \/ GetEffectsFromResult

IncrementSpec == IncrementInit /\ [][IncrementNext]_vars

-----------------------------------------------------------------------------
(* Reference definitions the properties are stated with: the planning problem *)
(* itself, by enumeration, independent of the search                         *)

\* every requirement of g holds of st
Satisfies(st, g) ==
    \A k \in DOMAIN g.requirements :
        k \in DOMAIN st /\ compare_values(g.requirements[k], st[k]) = "true"

\* some requirement of g names a fact st does not have
MissingFact(st, g) == \E k \in DOMAIN g.requirements : k \notin DOMAIN st

\* every materialized precondition of action a holds of st
Applicable(a, st) ==
    LET pre == get_preconditions(a, st)
    IN  \A i \in 1..Len(pre) :
            pre[i][1] \in DOMAIN st /\ compare_values(pre[i][2], st[pre[i][1]]) = "true"

\* the mutators ms applied one after the other, first to last
RECURSIVE Realize(_, _)
Realize(st, ms) ==
    IF ms = <<>> THEN st ELSE Realize(apply_mutator(st, Head(ms)).data, Tail(ms))

StateInWindow(st) == InWindow(StateNode(st))

\* the moves of the planning problem out of st: <<state reached, cost paid>>
Moves(st) ==
    {<<Realize(st, actions[i].effects[1].mutators), actions[i].effects[1].cost>> :
        i \in {j \in 1..Len(actions) :
                  actions[j].effects # <<>> /\ Applicable(actions[j], st)}}

\* the states reachable from the states of S without leaving the window
RECURSIVE ReachFrom(_)
ReachFrom(S) ==
    LET N == S \cup {m[1] : m \in UNION {Moves(st) : st \in S}}
        W == {st \in N : StateInWindow(st)}
    IN  IF W = S THEN S ELSE ReachFrom(W)

Reachable == ReachFrom({start})

\* no move out of a reachable state leaves the window: Reachable is all of it
Closed == \A st \in Reachable : \A m \in Moves(st) : StateInWindow(m[1])

\* cost-to-goal tables: sets of <<state, cost>>, one pair per state from which
\* a goal state is known to be reachable
Known(D) == {p[1] : p \in D}
CostIn(D, st) == IF st \in Known(D) THEN (CHOOSE p \in D : p[1] = st)[2] ELSE -1

\* relaxation of a cost-to-goal table over the states of R, to its fixpoint
RECURSIVE RelaxAll(_, _)
RelaxAll(D, R) ==
    LET K == Known(D)
        cand(st) == {m[2] + CostIn(D, m[1]) : m \in {x \in Moves(st) : x[1] \in K}}
                    \cup (IF st \in K THEN {CostIn(D, st)} ELSE {})
        N == {<<st, CHOOSE c \in cand(st) : \A o \in cand(st) : c <= o>> :
                 st \in {r \in R : cand(r) # {}}}
    IN  IF N = D THEN D ELSE RelaxAll(N, R)

\* the least total cost of an action sequence from each reachable state to a
\* state satisfying the goal, for the states that have one inside the window
GoalCosts ==
    LET R == Reachable
    IN  RelaxAll({<<st, 0>> : st \in {r \in R : Satisfies(r, goal)}}, R)

\* position of a fact name in BTreeMap order
KeyIndex(k) == CHOOSE i \in 1..Len(KeyOrder) : KeyOrder[i] = k

\* testing g against st, requirement by requirement in map order, comes to a
\* requirement whose fact st does not have before any requirement fails
ReachesMissing(st, g, k) ==
    /\ k \in DOMAIN g.requirements
    /\ k \notin DOMAIN st
    /\ \A o \in DOMAIN g.requirements :
          KeyIndex(o) < KeyIndex(k) =>
              o \in DOMAIN st /\ compare_values(g.requirements[o], st[o]) = "true"

\* the Effect vertices of a path, in path order
EffectVertices(p) ==
    LET at == SelectSeq([i \in 1..Len(p) |-> i], LAMBDA i : p[i].kind = "Effect")
    IN  [j \in 1..Len(at) |-> p[at[j]].effect]

\* vertex n carries the first effect template of action a
Carries(n, a) ==
    /\ n.kind = "Effect"
    /\ a.effects # <<>>
    /\ n.effect.action = a.effects[1].action
    /\ n.effect.mutators = a.effects[1].mutators
    /\ n.effect.cost = a.effects[1].cost

\* the library positions of the actions that have an effect and are applicable
\* in st, in library order
Contributors(st, lib) ==
    SelectSeq([j \in 1..Len(lib) |-> j],
              LAMBDA j : Len(lib[j].effects) >= 1 /\ Applicable(lib[j], st))

\* what an action contributes to the successors of a node of state st: the
\* vertex made of its first effect and that effect's cost
Contribution(st, a) ==
    <<EffectNode([action |-> a.effects[1].action,
                  mutators |-> a.effects[1].mutators,
                  cost |-> a.effects[1].cost,
                  state |-> Realize(st, a.effects[1].mutators)]),
      a.effects[1].cost>>

Searching == call = "make_plan" /\ strategy = "StartToGoal"
Returned == Searching /\ pc = "done" /\ result.kind = "Some"

-----------------------------------------------------------------------------
(* The claims *)

\* C1 (as claimed): whenever make_plan returns Some((path, cost)), cost is the
\* least total effect cost of any sequence of enabled actions leading from
\* start to a state that satisfies the goal.
C1_CostOptimal == Returned => result.cost = CostIn(GoalCosts, start)

\* C2 (as claimed): the heuristic of every node the search has generated is at
\* most the least total cost of an action sequence from that node's state to a
\* state that satisfies the goal.
C2_Admissible ==
    Searching =>
        LET D == GoalCosts
        IN  \A i \in 1..Len(parents) :
                Node_state(parents[i].node) \in Known(D) =>
                    heuristic(parents[i].node, goal) <= CostIn(D, Node_state(parents[i].node))

\* C3: when start already satisfies the goal (an empty goal included), the
\* search expands nothing and make_plan returns the one-vertex path holding
\* the initial-state node of start, with no Effect vertex and cost 0.
C3_StartSatisfiesGoal ==
    (Searching /\ Satisfies(start, goal)) =>
        /\ pc = "search" => parents = <<[node |-> StateNode(start), parent |-> 0, cost |-> 0]>>
        /\ pc = "done" =>
              /\ result.kind = "Some"
              /\ result.path = <<StateNode(start)>>
              /\ \A i \in 1..Len(result.path) : result.path[i].kind # "Effect"
              /\ result.cost = 0

C3_Witness ==
    /\ Returned
    /\ Satisfies(start, goal)
    /\ DOMAIN goal.requirements # {}
    /\ Moves(start) # {}

\* C4 (as claimed): when no state reachable from start satisfies the goal,
\* make_plan ends by returning None.
C4_UnreachableGivesNone ==
    (Searching /\ pc = "done" /\ Closed /\ \A st \in Reachable : ~Satisfies(st, goal))
        => result.kind = "None"

\* C5: an action whose materialized preconditions do not all hold of a node's
\* state contributes no successor of that node, and every Effect vertex the
\* search holds, or returns in a path, carries the effect of an action that was
\* applicable in the state of the vertex before it.
C5_DisabledNeverApplied ==
    Searching =>
        /\ \A i \in 1..Len(parents) : \A j \in 1..Len(actions) :
              ~Applicable(actions[j], Node_state(parents[i].node)) =>
                  \A k \in 1..Len(successors(parents[i].node, actions)) :
                      ~Carries(successors(parents[i].node, actions)[k][1], actions[j])
        /\ \A i \in 2..Len(parents) : \E j \in 1..Len(actions) :
              /\ Carries(parents[i].node, actions[j])
              /\ Applicable(actions[j], Node_state(parents[parents[i].parent].node))
        /\ pc = "done" /\ result.kind = "Some" =>
              \A i \in 2..Len(result.path) : \E j \in 1..Len(actions) :
                  /\ Carries(result.path[i], actions[j])
                  /\ Applicable(actions[j], Node_state(result.path[i - 1]))

C5_Witness ==
    /\ Returned
    /\ Len(result.path) >= 3
    /\ \E i \in 1..Len(parents) : \E j \in 1..Len(actions) :
          /\ actions[j].effects # <<>>
          /\ ~Applicable(actions[j], Node_state(parents[i].node))
          /\ successors(parents[i].node, actions) # <<>>

\* C6: the state stored in every Effect vertex is what the vertex's mutators,
\* applied first to last, make of the state of the vertex before it, and the
\* vertex's action name, mutators and cost are those of an effect template of
\* the library; this holds of every consecutive pair of a returned path too.
C6_RealizationDeterministic ==
    Searching =>
        /\ \A i \in 2..Len(parents) :
              LET n == parents[i].node
                  before == parents[parents[i].parent].node
              IN  /\ n.kind = "Effect"
                  /\ n.effect.state = Realize(Node_state(before), n.effect.mutators)
                  /\ \E j \in 1..Len(actions) : Carries(n, actions[j])
        /\ pc = "done" /\ result.kind = "Some" =>
              \A i \in 2..Len(result.path) :
                  /\ result.path[i].kind = "Effect"
                  /\ result.path[i].effect.state =
                        Realize(Node_state(result.path[i - 1]), result.path[i].effect.mutators)

C6_Witness ==
    /\ Returned
    /\ \E i \in 2..Len(result.path) :
          /\ Len(result.path[i].effect.mutators) >= 2
          /\ Node_state(result.path[i]) # Node_state(result.path[i - 1])

\* C7 (as claimed): for a node whose state has every fact the goal names, the
\* heuristic is 0 exactly when the goal test is true.
C7_ZeroIffGoal ==
    Searching =>
        \A i \in 1..Len(parents) :
            ~MissingFact(Node_state(parents[i].node), goal) =>
                (heuristic(parents[i].node, goal) = 0
                    <=> is_goal(parents[i].node, goal).res = "true")

\* C8 (as claimed): when goal evaluation comes to a requirement whose fact the
\* state lacks, the caller gets a typed failure naming that fact: not an abort
\* of the process, not false, not None.
C8_MissingFactIsTypedFailure ==
    \A k \in DOMAIN goal.requirements :
        (/\ pc = "done"
         /\ call = "check_goal" \/ Searching
         /\ ReachesMissing(start, goal, k))
            => result.kind = "Err" /\ result.key = k

\* C9 (as claimed): make_plan_with_strategy with GoalToStart gives the caller a
\* not-implemented failure value: it does not abort, it does not return None,
\* and it does not run the StartToGoal search.
C9_GoalToStartIsExplicitFailure ==
    (pc = "done" /\ strategy = "GoalToStart") =>
        /\ result.kind \notin {"Panic", "None", "Some"}
        /\ parents = <<>>

\* C10: get_effects_from_plan returns the Effects of the Effect vertices of
\* the path, in path order, wherever the initial-state vertices stand; for a
\* path returned by make_plan that is one Effect fewer than the path has
\* vertices.
C10_EffectsOfPlan ==
    /\ (call = "get_effects_from_plan" /\ pc = "done") =>
          /\ result.kind = "Effects"
          /\ result.effects = EffectVertices(plan)
    /\ (Returned /\ plan # <<>>) =>
          /\ plan = result.path
          /\ result.effects = EffectVertices(plan)
          /\ Len(result.effects) = Len(plan) - 1

C10_Witness ==
    /\ call = "get_effects_from_plan"
    /\ pc = "done"
    /\ Len(plan) = 3
    /\ plan[1].kind = "Effect"
    /\ plan[2].kind = "State"
    /\ plan[3].kind = "Effect"
    /\ Len(result.effects) = 2

\* C11: a make_plan call leaves start, the goal and the library as they were
\* passed, every effect template keeping its mutators, its cost and its empty
\* placeholder state, whether the call ends with a plan or with None; and no
\* step of the search alters the node, hence the state, held by a vertex that
\* was generated before the step, the expanded one included.
C11_PlanningLeavesInputs ==
    [][call = "make_plan" =>
          /\ start' = start
          /\ goal' = goal
          /\ actions' = actions
          /\ \A j \in 1..Len(actions') : \A e \in 1..Len(actions'[j].effects) :
                 actions'[j].effects[e].state = EmptyState
          /\ Len(parents') >= Len(parents)
          /\ \A i \in 1..Len(parents) : parents'[i].node = parents[i].node]_vars

C11_Witness ==
    /\ Searching
    /\ pc = "done"
    /\ result.kind = "None"
    /\ Len(parents) >= 4
    /\ \E i \in 2..Len(parents) : parents[i].parent >= 2
    /\ \E j \in 1..Len(actions) : Len(actions[j].effects) >= 2

\* the step is a call of builder method op
Calls(op) == calls' # calls /\ calls'[Len(calls')].op = op

\* C12: after n >= 1 add_mutator calls and no other call on Action::new(key)
\* the action has exactly one effect, named key, holding the n mutators in
\* call order; an add_mutator call on an action that has effects leaves their
\* number as it is, appends its mutator to the first effect's list and changes
\* no other effect, nor the key, nor the preconditions.
C12_SingleEffectUnderAddMutator ==
    [][Calls("add_mutator") =>
          /\ (\A i \in 1..Len(calls') : calls'[i].op = "add_mutator") =>
                 /\ Len(built'.effects) = 1
                 /\ built'.effects[1].action = built'.key
                 /\ built'.effects[1].mutators = [i \in 1..Len(calls') |-> calls'[i].arg]
          /\ built.effects # <<>> =>
                 /\ Len(built'.effects) = Len(built.effects)
                 /\ built'.effects[1].mutators =
                        Append(built.effects[1].mutators, calls'[Len(calls')].arg)
                 /\ \A e \in 2..Len(built.effects) : built'.effects[e] = built.effects[e]
          /\ built'.key = built.key
          /\ built'.preconditions = built.preconditions
          /\ built'.dynamic_preconditions = built.dynamic_preconditions]_vars

C12_Witness ==
    /\ call = "builder"
    /\ Len(calls) >= 3
    /\ \A i \in 1..Len(calls) : calls[i].op = "add_mutator"
    /\ calls[1].arg # calls[2].arg
    /\ Len(built.effects) = 1
    /\ Len(built.effects[1].mutators) = Len(calls)

\* C13: for every generated node whose expansion does not fault, successors
\* yields, in library order, exactly one pair per action that is applicable in
\* the node's state and has an effect: the Effect vertex made of the action's
\* first effect alone, with that effect's cost; an action without effects, or
\* not applicable, yields nothing, and no later effect of an action is applied.
C13_SuccessorsPerAction ==
    Searching =>
        \A i \in 1..Len(parents) :
            LET st == Node_state(parents[i].node)
                succ == successors(parents[i].node, actions)
                from == Contributors(st, actions)
            IN  SuccessorsPanic(st, actions, 1).res # "panic" =>
                    /\ Len(succ) = Len(from)
                    /\ \A n \in 1..Len(from) : succ[n] = Contribution(st, actions[from[n]])

C13_Witness ==
    /\ Searching
    /\ \E i \in 1..Len(parents) :
          LET st == Node_state(parents[i].node)
          IN  /\ \E n \in 2..Len(parents) : parents[n].parent = i
              /\ Len(successors(parents[i].node, actions)) = 2
              /\ \E j \in 1..Len(actions) :
                    Len(actions[j].effects) >= 2 /\ Applicable(actions[j], st)
    /\ \E j \in 1..Len(actions) : actions[j].effects = <<>>

\* C14: for every action of the library and every generated node,
\* get_preconditions on the node's state gives the static preconditions as
\* they stand, in order, then one pair per dynamic precondition, in order: its
\* fact name and its function applied to that node's state (not to start); and
\* it is those pairs, tested against the node's state, that decide whether the
\* action contributes a successor of the node.
C14_PreconditionsMaterialized ==
    Searching =>
        \A i \in 1..Len(parents) :
            LET st == Node_state(parents[i].node)
                succ == successors(parents[i].node, actions)
                faults == SuccessorsPanic(st, actions, 1).res = "panic"
            IN  \A j \in 1..Len(actions) :
                    LET a == actions[j]
                        pre == get_preconditions(a, st)
                        ns == Len(a.preconditions)
                        holds == \A n \in 1..Len(pre) :
                                     /\ pre[n][1] \in DOMAIN st
                                     /\ compare_values(pre[n][2], st[pre[n][1]]) = "true"
                    IN  /\ Len(pre) = ns + Len(a.dynamic_preconditions)
                        /\ \A n \in 1..ns : pre[n] = a.preconditions[n]
                        /\ \A n \in 1..Len(a.dynamic_preconditions) :
                              /\ pre[ns + n][1] = a.dynamic_preconditions[n][1]
                              /\ pre[ns + n][2] = DynGetter(a.dynamic_preconditions[n][2], st)
                        /\ ~faults =>
                              ((a.effects # <<>> /\ holds) <=>
                                  \E k \in 1..Len(succ) : Carries(succ[k][1], a))

C14_Witness ==
    /\ Searching
    /\ \E j \in 1..Len(actions) :
          actions[j].preconditions # <<>> /\ actions[j].dynamic_preconditions # <<>>
    /\ \E i \in 2..Len(parents) : \E j \in 1..Len(actions) :
          /\ get_preconditions(actions[j], Node_state(parents[i].node))
                # get_preconditions(actions[j], start)
          /\ \E n \in 2..Len(parents) : parents[n].parent = i

\* the least n with n * k >= d, for d > 0 and k > 0
CeilDiv(d, k) == (d + k - 1) \div k

\* C15: with start {f: v}, a library of one action without preconditions whose
\* single effect is Increment(f, k), k > 0, of cost c, and the goal f >= t with
\* v < t, make_plan returns n = ceil((t - v) / k) effects of that action after
\* the start vertex, the i-th holding f = v + i * k, and the cost n * c.
C15_IncrementAccumulates ==
    (/\ Returned
     /\ Len(actions) = 1
     /\ actions[1].preconditions = <<>>
     /\ actions[1].dynamic_preconditions = <<>>
     /\ Len(actions[1].effects) = 1
     /\ Len(actions[1].effects[1].mutators) = 1
     /\ actions[1].effects[1].mutators[1].op = "Increment"
     /\ actions[1].effects[1].mutators[1].val.tag = "I64"
     /\ actions[1].effects[1].mutators[1].val.val > 0
     /\ DOMAIN start = {actions[1].effects[1].mutators[1].key}
     /\ DOMAIN goal.requirements = DOMAIN start
     /\ \A f \in DOMAIN start :
           /\ start[f].tag = "I64"
           /\ goal.requirements[f].op = "GreaterThanOrEquals"
           /\ goal.requirements[f].val.tag = "I64"
           /\ start[f].val < goal.requirements[f].val.val)
        => \A f \in DOMAIN start :
               LET v == start[f].val
                   t == goal.requirements[f].val.val
                   k == actions[1].effects[1].mutators[1].val.val
                   c == actions[1].effects[1].cost
                   n == CeilDiv(t - v, k)
               IN  /\ Len(result.path) = n + 1
                   /\ result.path[1] = StateNode(start)
                   /\ \A i \in 1..n :
                         /\ result.path[i + 1].kind = "Effect"
                         /\ result.path[i + 1].effect.action = actions[1].key
                         /\ result.path[i + 1].effect.mutators = actions[1].effects[1].mutators
                         /\ result.path[i + 1].effect.state = [g \in {f} |-> I64(v + i * k)]
                   /\ result.cost = n * c

C15_Witness ==
    /\ Returned
    /\ DOMAIN start = {"energy"}
    /\ Len(actions) = 1
    /\ actions[1].effects[1].mutators = <<Increment("energy", I64(2))>>
    /\ actions[1].effects[1].cost = 2
    /\ goal.requirements["energy"].val.val - start["energy"].val = 5
    /\ Len(result.path) = 4
    /\ result.cost = 6
    /\ Node_state(result.path[4])["energy"].val = goal.requirements["energy"].val.val + 1

\* actions a and b agree on the key, the static preconditions, the effects and
\* the fact names of the dynamic preconditions, position by position
SameButFunctions(a, b) ==
    /\ a.key = b.key
    /\ a.preconditions = b.preconditions
    /\ a.effects = b.effects
    /\ Len(a.dynamic_preconditions) = Len(b.dynamic_preconditions)
    /\ \A i \in 1..Len(a.dynamic_preconditions) :
          a.dynamic_preconditions[i][1] = b.dynamic_preconditions[i][1]

\* == has been evaluated on the built action and another one
Compared == call = "builder" /\ pc = "done" /\ result.kind \in {"true", "false"}

\* C16: two actions that agree on key, static preconditions, effects and the
\* ordered fact names of their dynamic preconditions are equal, whatever their
\* dynamic functions are, and two actions that are equal have the same hash.
C16_EqualityByFactName ==
    Compared =>
        /\ SameButFunctions(built, compared) => result.kind = "true"
        /\ result.kind = "true" => Action_hash(built) = Action_hash(compared)

C16_Witness ==
    /\ Compared
    /\ result.kind = "true"
    /\ Len(built.dynamic_preconditions) >= 2
    /\ \A i \in 1..Len(built.dynamic_preconditions) :
          built.dynamic_preconditions[i][2] # compared.dynamic_preconditions[i][2]
    /\ built.effects # <<>>

\* the sum of the cost fields of the Effect vertices of a path
RECURSIVE PathCost(_)
PathCost(p) ==
    IF p = <<>> THEN 0
    ELSE (IF Head(p).kind = "Effect" THEN Head(p).effect.cost ELSE 0) + PathCost(Tail(p))

\* C17: whenever make_plan returns Some((path, cost)), path is
\* not empty, its first vertex is the initial-state node of start, every later
\* vertex is an Effect node, the state of the last vertex satisfies every
\* requirement of the goal, and cost is the sum of the cost fields of the
\* Effect nodes of path.
C17_PlanShape ==
    Returned =>
        /\ result.path # <<>>
        /\ result.path[1] = StateNode(start)
        /\ \A i \in 2..Len(result.path) : result.path[i].kind = "Effect"
        /\ Satisfies(Node_state(result.path[Len(result.path)]), goal)
        /\ result.cost = PathCost(result.path)

C17_Witness ==
    /\ Returned
    /\ Len(result.path) >= 4
    /\ \E i \in 2..Len(result.path) : \E j \in 2..Len(result.path) :
          result.path[i].effect.cost # result.path[j].effect.cost
    /\ result.cost >= 2

\* testing g against st, requirement by requirement in map order, comes to a
\* requirement that compares false before any fact st does not have
FailsFirst(st, g) ==
    \E k \in DOMAIN g.requirements :
        /\ k \in DOMAIN st
        /\ compare_values(g.requirements[k], st[k]) = "false"
        /\ \A o \in DOMAIN g.requirements :
              KeyIndex(o) < KeyIndex(k) =>
                  o \in DOMAIN st /\ compare_values(g.requirements[o], st[o]) = "true"

C19_SetCostFrame ==
    [][Calls("set_cost") =>
          /\ built'.key = built.key
          /\ built'.preconditions = built.preconditions
          /\ built'.dynamic_preconditions = built.dynamic_preconditions
          /\ Len(built'.effects) = Len(built.effects)
          /\ IF built.effects = <<>>
             THEN /\ pc' = "done"
                  /\ result' = Panic("", "index out of bounds: the len is 0 but the index is 0")
             ELSE /\ built'.effects[1].cost = calls'[Len(calls')].arg
                  /\ built'.effects[1].action = built.effects[1].action
                  /\ built'.effects[1].mutators = built.effects[1].mutators
                  /\ built'.effects[1].state = built.effects[1].state
                  /\ \A e \in 2..Len(built.effects) : built'.effects[e] = built.effects[e]
                  /\ pc' = pc
                  /\ result' = result
          /\ calls'[1].op = "set_cost" => result'.kind = "Panic"]_vars

C19_Witness ==
    /\ call = "builder"
    /\ pc = "init"
    /\ Len(calls) = 3
    /\ calls[1].op = "add_mutator"
    /\ calls[3].op = "set_cost"
    /\ Len(built.effects) = 2
    /\ built.effects[1].cost = calls[3].arg
    /\ built.effects[1].cost # DefaultCost
    /\ built.effects[2].cost # built.effects[1].cost

=============================================================================
